---- MODULE Spec2Model ----
(***************************************************************************)
(* Model of the DS3231 square-wave controller (src/src/square_wave.rs) and *)
(* of the driver error type (src/src/error.rs).                            *)
(*                                                                         *)
(* The state is the device's control register together with the           *)
(* observation of the last call made on the driver: which operation, its   *)
(* argument, the register value before the call, the bus transactions the  *)
(* call issued in order, and the value it returned.  Calls never overlap   *)
(* (the driver is used through &mut self), so each call is one step.       *)
(*                                                                         *)
(* The bus is the environment: for every call it decides whether the read  *)
(* fails, whether the write fails, which transport error it reports, and   *)
(* whether a write that reported a failure reached the device anyway.      *)
(*                                                                         *)
(* Two history variables serve the properties that span several calls:     *)
(* frame0 holds bits 0, 1, 5, 6, 7 of the control register at              *)
(* construction (the byte with bits 2-4 zeroed), and held is the frequency *)
(* of the last set_square_wave_frequency or start_square_wave when that    *)
(* call returned Ok and no frequency call was made since.                  *)
(***************************************************************************)
EXTENDS Integers, Sequences, FiniteSets, TLC

VARIABLES ctrl, op, arg, pre, bus, result, frame0, held

vars == <<ctrl, op, arg, pre, bus, result, frame0, held>>

(***************************************************************************)
(* Bounds                                                                  *)
(***************************************************************************)
\* transport errors are opaque values 0..MaxI2cError
MaxI2cError == 1

I2cErrors == 0..MaxI2cError

(***************************************************************************)
(* u8 arithmetic                                                           *)
(***************************************************************************)
Byte == 0..255

RECURSIVE BitAnd(_, _)
BitAnd(a, b) ==
    IF a = 0 \/ b = 0 THEN 0
    ELSE (a % 2) * (b % 2) + 2 * BitAnd(a \div 2, b \div 2)

RECURSIVE BitOr(_, _)
BitOr(a, b) ==
    IF a = 0 THEN b
    ELSE IF b = 0 THEN a
    ELSE (IF a % 2 = 1 \/ b % 2 = 1 THEN 1 ELSE 0) + 2 * BitOr(a \div 2, b \div 2)

BitNot(a) == 255 - a

(***************************************************************************)
(* Register map and bus addressing                                         *)
(***************************************************************************)
DS3231_ADDR == 104

Control == 14

INTCN_BIT == 4

RS_MASK == 24

(***************************************************************************)
(* Frequencies and errors                                                  *)
(***************************************************************************)
SquareWaveFreq == {"Hz1", "Hz1024", "Hz4096", "Hz8192", "Hz32768"}

DateTimeError == {"InvalidDay", "InvalidMonth"}

Ok == [tag |-> "Ok", payload |-> <<>>]

Error_I2c(e) == [tag |-> "I2c", payload |-> <<e>>]

Error_InvalidAddress == [tag |-> "InvalidAddress", payload |-> <<>>]

Error_UnsupportedSqwFrequency == [tag |-> "UnsupportedSqwFrequency", payload |-> <<>>]

Error_DateTime(d) == [tag |-> "DateTime", payload |-> <<d>>]

Error_InvalidBaseCentury == [tag |-> "InvalidBaseCentury", payload |-> <<>>]

Error ==
    {Error_I2c(e) : e \in I2cErrors}
        \cup {Error_DateTime(d) : d \in DateTimeError}
        \cup {Error_InvalidAddress, Error_UnsupportedSqwFrequency,
              Error_InvalidBaseCentury}

\* a conversion that loses the transport error
From_loses_error(value) == Error_InvalidAddress

\* impl From<I2cError> for Error<I2cError>
From(value) == Error_I2c(value)

\* a projection that classifies an invalid base century apart from the table
kind_century_other(self) ==
    CASE self.tag = "I2c" -> "Bus"
      [] self.tag = "InvalidAddress" -> "InvalidAddress"
      [] self.tag = "DateTime" -> "InvalidDateTime"
      [] self.tag = "UnsupportedSqwFrequency" -> "UnsupportedSqwFrequency"
      [] self.tag = "InvalidBaseCentury" -> "Other"

\* a projection that files an invalid base century under InvalidAddress
kind_century_address(self) ==
    CASE self.tag = "I2c" -> "Bus"
      [] self.tag = "InvalidAddress" -> "InvalidAddress"
      [] self.tag = "DateTime" -> "InvalidDateTime"
      [] self.tag = "UnsupportedSqwFrequency" -> "UnsupportedSqwFrequency"
      [] self.tag = "InvalidBaseCentury" -> "InvalidAddress"

\* impl RtcError for Error<I2cError>: fn kind(&self)
kind(self) ==
    CASE self.tag = "I2c" -> "Bus"
      [] self.tag = "InvalidAddress" -> "InvalidAddress"
      [] self.tag = "DateTime" -> "InvalidDateTime"
      [] self.tag = "UnsupportedSqwFrequency" -> "UnsupportedSqwFrequency"
      [] self.tag = "InvalidBaseCentury" -> "InvalidDateTime"

\* a lookup that gives 8.192 kHz the pattern of 4.096 kHz
freq_to_bits_duplicate(freq) ==
    CASE freq = "Hz1" -> [ok |-> TRUE, bits |-> 0, err |-> Ok]
      [] freq = "Hz1024" -> [ok |-> TRUE, bits |-> 8, err |-> Ok]
      [] freq = "Hz4096" -> [ok |-> TRUE, bits |-> 16, err |-> Ok]
      [] freq = "Hz8192" -> [ok |-> TRUE, bits |-> 16, err |-> Ok]
      [] OTHER -> [ok |-> FALSE, bits |-> 0, err |-> Error_UnsupportedSqwFrequency]

\* fn freq_to_bits: Ok(bits) is [ok |-> TRUE, bits], Err is [ok |-> FALSE, err]
freq_to_bits(freq) ==
    CASE freq = "Hz1" -> [ok |-> TRUE, bits |-> 0, err |-> Ok]
      [] freq = "Hz1024" -> [ok |-> TRUE, bits |-> 8, err |-> Ok]
      [] freq = "Hz4096" -> [ok |-> TRUE, bits |-> 16, err |-> Ok]
      [] freq = "Hz8192" -> [ok |-> TRUE, bits |-> 24, err |-> Ok]
      [] OTHER -> [ok |-> FALSE, bits |-> 0, err |-> Error_UnsupportedSqwFrequency]

(***************************************************************************)
(* The bus: transactions and the environment's choices for one call        *)
(***************************************************************************)
Env == [rfail : BOOLEAN, wfail : BOOLEAN, e : I2cErrors, landed : BOOLEAN]

\* I2c::write_read(address, &[reg], &mut [u8; 1]); err is what the bus reported
WriteRead(address, reg, response, err) ==
    [kind |-> "write_read", address |-> address, bytes |-> <<reg>>,
     response |-> response, ok |-> err = <<>>, err |-> err]

\* I2c::write(address, &[reg, value])
Write(address, reg, value, err) ==
    [kind |-> "write", address |-> address, bytes |-> <<reg, value>>,
     response |-> <<>>, ok |-> err = <<>>, err |-> err]

(***************************************************************************)
(* Register access engine.  Every operator takes the device register value *)
(* dev and the environment's choices env, and yields the returned value,   *)
(* the transactions issued and the device register value afterwards.       *)
(***************************************************************************)
read_register(reg, dev, env) ==
    IF env.rfail
    THEN [result |-> From(env.e), val |-> 0, dev |-> dev,
          bus |-> <<WriteRead(DS3231_ADDR, reg, <<>>, <<env.e>>)>>]
    ELSE [result |-> Ok, val |-> dev, dev |-> dev,
          bus |-> <<WriteRead(DS3231_ADDR, reg, <<dev>>, <<>>)>>]

write_register(reg, value, dev, env) ==
    IF env.wfail
    THEN [result |-> From(env.e),
          dev |-> IF env.landed THEN value ELSE dev,
          bus |-> <<Write(DS3231_ADDR, reg, value, <<env.e>>)>>]
    ELSE [result |-> Ok, dev |-> value,
          bus |-> <<Write(DS3231_ADDR, reg, value, <<>>)>>]

\* the outcome of a call that stopped after the read r
AfterRead(r, res) == [result |-> res, dev |-> r.dev, bus |-> r.bus]

\* the outcome of a call that ended with the write w after the read r
AfterWrite(r, w) == [result |-> w.result, dev |-> w.dev, bus |-> r.bus \o w.bus]

set_register_bits(reg, mask, dev, env) ==
    LET r == read_register(reg, dev, env)
    IN  IF r.result # Ok
        THEN AfterRead(r, r.result)
        ELSE LET current == r.val
                 new_value == BitOr(current, mask)
             IN  IF new_value # current
                 THEN AfterWrite(r, write_register(reg, new_value, r.dev, env))
                 ELSE AfterRead(r, Ok)

clear_register_bits(reg, mask, dev, env) ==
    LET r == read_register(reg, dev, env)
    IN  IF r.result # Ok
        THEN AfterRead(r, r.result)
        ELSE LET current == r.val
                 new_value == BitAnd(current, BitNot(mask))
             IN  IF new_value # current
                 THEN AfterWrite(r, write_register(reg, new_value, r.dev, env))
                 ELSE AfterRead(r, Ok)

(***************************************************************************)
(* impl SquareWave for Ds3231                                              *)
(***************************************************************************)
\* enable that also resets the rate-select field
enable_square_wave_clears_rate(dev, env) ==
    clear_register_bits(Control, BitOr(INTCN_BIT, RS_MASK), dev, env)

\* enable that sets INTCN instead of clearing it
enable_square_wave_sets(dev, env) ==
    set_register_bits(Control, INTCN_BIT, dev, env)

enable_square_wave(dev, env) ==
    clear_register_bits(Control, INTCN_BIT, dev, env)

\* disable that clears INTCN instead of setting it
disable_square_wave_clears(dev, env) ==
    clear_register_bits(Control, INTCN_BIT, dev, env)

disable_square_wave(dev, env) ==
    set_register_bits(Control, INTCN_BIT, dev, env)

\* set_square_wave_frequency whose mask also covers bit 5
set_square_wave_frequency_wide_mask(freq, dev, env) ==
    LET rs == freq_to_bits(freq)
    IN  IF ~rs.ok
        THEN [result |-> rs.err, dev |-> dev, bus |-> <<>>]
        ELSE LET r == read_register(Control, dev, env)
             IN  IF r.result # Ok
                 THEN AfterRead(r, r.result)
                 ELSE LET current == r.val
                          new_value == BitOr(BitAnd(current, BitNot(56)), rs.bits)
                      IN  IF new_value # current
                          THEN AfterWrite(r, write_register(Control, new_value, r.dev, env))
                          ELSE AfterRead(r, Ok)

\* set_square_wave_frequency that writes a second time when the write fails
set_square_wave_frequency_retries_write(freq, dev, env) ==
    LET rs == freq_to_bits(freq)
    IN  IF ~rs.ok
        THEN [result |-> rs.err, dev |-> dev, bus |-> <<>>]
        ELSE LET r == read_register(Control, dev, env)
             IN  IF r.result # Ok
                 THEN AfterRead(r, r.result)
                 ELSE LET current == r.val
                          new_value == BitOr(BitAnd(current, BitNot(RS_MASK)), rs.bits)
                      IN  IF new_value # current
                          THEN LET w == write_register(Control, new_value, r.dev, env)
                               IN  IF w.result # Ok
                                   THEN LET again == write_register(Control, new_value,
                                                                    w.dev, env)
                                        IN  [result |-> again.result, dev |-> again.dev,
                                             bus |-> r.bus \o w.bus \o again.bus]
                                   ELSE AfterWrite(r, w)
                          ELSE AfterRead(r, Ok)

\* set_square_wave_frequency that reads the status register (0x0F)
set_square_wave_frequency_reads_status(freq, dev, env) ==
    LET rs == freq_to_bits(freq)
    IN  IF ~rs.ok
        THEN [result |-> rs.err, dev |-> dev, bus |-> <<>>]
        ELSE LET r == read_register(15, dev, env)
             IN  IF r.result # Ok
                 THEN AfterRead(r, r.result)
                 ELSE LET current == r.val
                          new_value == BitOr(BitAnd(current, BitNot(RS_MASK)), rs.bits)
                      IN  IF new_value # current
                          THEN AfterWrite(r, write_register(Control, new_value, r.dev, env))
                          ELSE AfterRead(r, Ok)

\* set_square_wave_frequency that reads the register before it converts freq
set_square_wave_frequency_read_first(freq, dev, env) ==
    LET r == read_register(Control, dev, env)
        rs == freq_to_bits(freq)
    IN  IF r.result # Ok
        THEN AfterRead(r, r.result)
        ELSE IF ~rs.ok
        THEN AfterRead(r, rs.err)
        ELSE LET current == r.val
                 new_value == BitOr(BitAnd(current, BitNot(RS_MASK)), rs.bits)
             IN  IF new_value # current
                 THEN AfterWrite(r, write_register(Control, new_value, r.dev, env))
                 ELSE AfterRead(r, Ok)

\* set_square_wave_frequency that writes back unconditionally
set_square_wave_frequency_always_writes(freq, dev, env) ==
    LET rs == freq_to_bits(freq)
    IN  IF ~rs.ok
        THEN [result |-> rs.err, dev |-> dev, bus |-> <<>>]
        ELSE LET r == read_register(Control, dev, env)
             IN  IF r.result # Ok
                 THEN AfterRead(r, r.result)
                 ELSE LET current == r.val
                          new_value == BitOr(BitAnd(current, BitNot(RS_MASK)), rs.bits)
                      IN  AfterWrite(r, write_register(Control, new_value, r.dev, env))

\* set_square_wave_frequency that does not clear the old RS bits
set_square_wave_frequency_no_clear(freq, dev, env) ==
    LET rs == freq_to_bits(freq)
    IN  IF ~rs.ok
        THEN [result |-> rs.err, dev |-> dev, bus |-> <<>>]
        ELSE LET r == read_register(Control, dev, env)
             IN  IF r.result # Ok
                 THEN AfterRead(r, r.result)
                 ELSE LET current == r.val
                          new_value == BitOr(current, rs.bits)
                      IN  IF new_value # current
                          THEN AfterWrite(r, write_register(Control, new_value, r.dev, env))
                          ELSE AfterRead(r, Ok)

set_square_wave_frequency(freq, dev, env) ==
    LET rs == freq_to_bits(freq)
    IN  IF ~rs.ok
        THEN [result |-> rs.err, dev |-> dev, bus |-> <<>>]
        ELSE LET r == read_register(Control, dev, env)
             IN  IF r.result # Ok
                 THEN AfterRead(r, r.result)
                 ELSE LET current == r.val
                          new_value == BitOr(BitAnd(current, BitNot(RS_MASK)), rs.bits)
                      IN  IF new_value # current
                          THEN AfterWrite(r, write_register(Control, new_value, r.dev, env))
                          ELSE AfterRead(r, Ok)

\* start_square_wave that skips the write when the rate bits already match
start_square_wave_elides_on_rate(freq, dev, env) ==
    LET rs == freq_to_bits(freq)
    IN  IF ~rs.ok
        THEN [result |-> rs.err, dev |-> dev, bus |-> <<>>]
        ELSE LET r == read_register(Control, dev, env)
             IN  IF r.result # Ok
                 THEN AfterRead(r, r.result)
                 ELSE LET current == r.val
                          new_value ==
                              BitAnd(BitOr(BitAnd(current, BitNot(RS_MASK)), rs.bits),
                                     BitNot(INTCN_BIT))
                      IN  IF BitAnd(new_value, RS_MASK) # BitAnd(current, RS_MASK)
                          THEN AfterWrite(r, write_register(Control, new_value, r.dev, env))
                          ELSE AfterRead(r, Ok)

\* start_square_wave that writes back unconditionally
start_square_wave_always_writes(freq, dev, env) ==
    LET rs == freq_to_bits(freq)
    IN  IF ~rs.ok
        THEN [result |-> rs.err, dev |-> dev, bus |-> <<>>]
        ELSE LET r == read_register(Control, dev, env)
             IN  IF r.result # Ok
                 THEN AfterRead(r, r.result)
                 ELSE LET current == r.val
                          new_value ==
                              BitAnd(BitOr(BitAnd(current, BitNot(RS_MASK)), rs.bits),
                                     BitNot(INTCN_BIT))
                      IN  AfterWrite(r, write_register(Control, new_value, r.dev, env))

\* start_square_wave that sets INTCN (interrupt mode) instead of clearing it
start_square_wave_sets_intcn(freq, dev, env) ==
    LET rs == freq_to_bits(freq)
    IN  IF ~rs.ok
        THEN [result |-> rs.err, dev |-> dev, bus |-> <<>>]
        ELSE LET r == read_register(Control, dev, env)
             IN  IF r.result # Ok
                 THEN AfterRead(r, r.result)
                 ELSE LET current == r.val
                          new_value ==
                              BitOr(BitOr(BitAnd(current, BitNot(RS_MASK)), rs.bits),
                                    INTCN_BIT)
                      IN  IF new_value # current
                          THEN AfterWrite(r, write_register(Control, new_value, r.dev, env))
                          ELSE AfterRead(r, Ok)

\* start_square_wave that carries on with a zero byte when the read fails
start_square_wave_ignores_read_error(freq, dev, env) ==
    LET rs == freq_to_bits(freq)
    IN  IF ~rs.ok
        THEN [result |-> rs.err, dev |-> dev, bus |-> <<>>]
        ELSE LET r == read_register(Control, dev, env)
                 current == IF r.result # Ok THEN 0 ELSE r.val
                 new_value ==
                     BitAnd(BitOr(BitAnd(current, BitNot(RS_MASK)), rs.bits),
                            BitNot(INTCN_BIT))
             IN  IF new_value # current
                 THEN AfterWrite(r, write_register(Control, new_value, r.dev, env))
                 ELSE AfterRead(r, Ok)

\* start_square_wave that leaves INTCN as it was
start_square_wave_keeps_intcn(freq, dev, env) ==
    LET rs == freq_to_bits(freq)
    IN  IF ~rs.ok
        THEN [result |-> rs.err, dev |-> dev, bus |-> <<>>]
        ELSE LET r == read_register(Control, dev, env)
             IN  IF r.result # Ok
                 THEN AfterRead(r, r.result)
                 ELSE LET current == r.val
                          new_value == BitOr(BitAnd(current, BitNot(RS_MASK)), rs.bits)
                      IN  IF new_value # current
                          THEN AfterWrite(r, write_register(Control, new_value, r.dev, env))
                          ELSE AfterRead(r, Ok)

start_square_wave(freq, dev, env) ==
    LET rs == freq_to_bits(freq)
    IN  IF ~rs.ok
        THEN [result |-> rs.err, dev |-> dev, bus |-> <<>>]
        ELSE LET r == read_register(Control, dev, env)
             IN  IF r.result # Ok
                 THEN AfterRead(r, r.result)
                 ELSE LET current == r.val
                          new_value ==
                              BitAnd(BitOr(BitAnd(current, BitNot(RS_MASK)), rs.bits),
                                     BitNot(INTCN_BIT))
                      IN  IF new_value # current
                          THEN AfterWrite(r, write_register(Control, new_value, r.dev, env))
                          ELSE AfterRead(r, Ok)

(***************************************************************************)
(* State machine                                                           *)
(***************************************************************************)
NoResult == [tag |-> "None", payload |-> <<>>]

\* Ds3231::new: a driver over a device whose control register holds any byte
Init ==
    /\ ctrl \in Byte
    /\ op = "new"
    /\ arg = <<>>
    /\ pre = ctrl
    /\ bus = <<>>
    /\ result = NoResult
    /\ frame0 = BitAnd(ctrl, 227)
    /\ held = "none"

\* a call named o with argument a and outcome out
Call(o, a, out) ==
    /\ op' = o
    /\ arg' = a
    /\ pre' = ctrl
    /\ ctrl' = out.dev
    /\ bus' = out.bus
    /\ result' = out.result
    /\ frame0' = frame0
    /\ held' = IF o \in {"set_square_wave_frequency", "start_square_wave"}
               THEN IF out.result = Ok THEN a[1] ELSE "none"
               ELSE held

EnableSquareWave ==
    \E env \in Env : Call("enable_square_wave", <<>>, enable_square_wave(ctrl, env))

DisableSquareWave ==
    \E env \in Env : Call("disable_square_wave", <<>>, disable_square_wave(ctrl, env))

SetSquareWaveFrequency ==
    \E freq \in SquareWaveFreq, env \in Env :
        Call("set_square_wave_frequency", <<freq>>,
             set_square_wave_frequency(freq, ctrl, env))

StartSquareWave ==
    \E freq \in SquareWaveFreq, env \in Env :
        Call("start_square_wave", <<freq>>, start_square_wave(freq, ctrl, env))

\* the frequency lookup on its own
FreqToBits ==
    \E freq \in SquareWaveFreq :
        LET rs == freq_to_bits(freq)
        IN  Call("freq_to_bits", <<freq>>,
                 [result |-> IF rs.ok THEN [tag |-> "Ok", payload |-> <<rs.bits>>]
                                      ELSE rs.err,
                  dev |-> ctrl, bus |-> <<>>])

\* the caller classifies an error value
Kind ==
    \E err \in Error :
        Call("kind", <<err>>,
             [result |-> [tag |-> "ErrorKind", payload |-> <<kind(err)>>],
              dev |-> ctrl, bus |-> <<>>])

Next ==
    \/ EnableSquareWave
    \/ DisableSquareWave
    \/ SetSquareWaveFrequency
    \/ StartSquareWave
    \/ FreqToBits
    \/ Kind

Spec == Init /\ [][Next]_vars

(***************************************************************************)
(* Vocabulary of the properties                                            *)
(***************************************************************************)
SqwOps == {"enable_square_wave", "disable_square_wave",
           "set_square_wave_frequency", "start_square_wave"}

FreqOps == {"set_square_wave_frequency", "start_square_wave"}

Supported == {"Hz1", "Hz1024", "Hz4096", "Hz8192"}

\* the rate-select pattern of a supported frequency, as documented
Pattern(f) ==
    CASE f = "Hz1" -> 0
      [] f = "Hz1024" -> 8
      [] f = "Hz4096" -> 16
      [] f = "Hz8192" -> 24

\* bit i of a byte
Bit(v, i) == (v \div (2^i)) % 2

\* bits 3-4 of a byte, in place
RateBits(c) == 8 * Bit(c, 3) + 16 * Bit(c, 4)

\* bit 2 of a byte
Intcn(c) == Bit(c, 2)

OtherBits == {0, 1, 5, 6, 7}

Reads == {i \in 1..Len(bus) : bus[i].kind = "write_read"}

Writes == {i \in 1..Len(bus) : bus[i].kind = "write"}

\* the call issued one read and it returned a byte
ReadOk == Len(bus) >= 1 /\ bus[1].kind = "write_read" /\ bus[1].ok

\* the byte the read returned (when ReadOk)
ByteRead == bus[1].response[1]

\* the call issued a write as its second transaction
Wrote == Len(bus) = 2 /\ bus[2].kind = "write"

\* the byte the write carried (when Wrote)
ByteWritten == bus[2].bytes[2]

\* one read, then nothing
OneReadNoWrite == Len(bus) = 1 /\ bus[1].kind = "write_read"

\* one read, then one write
OneReadOneWrite == Len(bus) = 2 /\ bus[1].kind = "write_read" /\ bus[2].kind = "write"

(***************************************************************************)
(* C1: set_square_wave_frequency and start_square_wave called with a       *)
(* frequency outside {1 Hz, 1.024 kHz, 4.096 kHz, 8.192 kHz} return        *)
(* UnsupportedSqwFrequency, issue no bus transaction at all, and leave the *)
(* device control register as it was.                                      *)
(***************************************************************************)
C1_UnsupportedNoBus ==
    (op \in FreqOps /\ arg[1] \notin Supported)
        => /\ result = Error_UnsupportedSqwFrequency
           /\ bus = <<>>
           /\ ctrl = pre

C1_Witness ==
    /\ op = "start_square_wave"
    /\ arg = <<"Hz32768">>
    /\ pre = 28
    /\ result = Error_UnsupportedSqwFrequency

(***************************************************************************)
(* C2: set_square_wave_frequency(f) for a supported f issues exactly one   *)
(* read of the control register; when the read returns byte c it is        *)
(* followed by exactly one write if bits 3-4 of c differ from f's pattern  *)
(* and by no write if they already equal it.                               *)
(***************************************************************************)
C2_SetFreqTraffic ==
    (op = "set_square_wave_frequency" /\ arg[1] \in Supported)
        => /\ Cardinality(Reads) = 1
           /\ bus[1].kind = "write_read"
           /\ bus[1].bytes = <<14>>
           /\ ReadOk =>
                IF RateBits(ByteRead) # Pattern(arg[1])
                THEN OneReadOneWrite
                ELSE OneReadNoWrite

C2_Witness ==
    /\ op = "set_square_wave_frequency"
    /\ arg = <<"Hz4096">>
    /\ ReadOk
    /\ ByteRead = 16
    /\ OneReadNoWrite
    /\ result = Ok

(***************************************************************************)
(* C3: whenever set_square_wave_frequency(f) writes, the byte written is   *)
(* the byte read with only bits 3-4 replaced by f's pattern: bit 2 (INTCN) *)
(* and bits 0, 1, 5, 6, 7 are those of the byte read.                      *)
(***************************************************************************)
C3_SetFreqSplice ==
    (op = "set_square_wave_frequency" /\ arg[1] \in Supported /\ ReadOk /\ Wrote)
        => /\ RateBits(ByteWritten) = Pattern(arg[1])
           /\ Intcn(ByteWritten) = Intcn(ByteRead)
           /\ \A i \in OtherBits : Bit(ByteWritten, i) = Bit(ByteRead, i)

C3_Witness ==
    /\ op = "set_square_wave_frequency"
    /\ arg = <<"Hz1024">>
    /\ ReadOk /\ Wrote
    /\ ByteRead = 255
    /\ ByteWritten = 239

(***************************************************************************)
(* C4: start_square_wave(f) for a supported f issues exactly one read of   *)
(* the control register and at most one write.  The target is the byte     *)
(* read with bits 3-4 replaced by f's pattern and bit 2 cleared, the other *)
(* bits copied; the write carries the target and happens exactly when the  *)
(* target differs from the byte read.                                      *)
(***************************************************************************)
C4_Target(c, f) == c - RateBits(c) - 4 * Intcn(c) + Pattern(f)

C4_StartTraffic ==
    (op = "start_square_wave" /\ arg[1] \in Supported)
        => /\ Cardinality(Reads) = 1
           /\ Cardinality(Writes) <= 1
           /\ bus[1].kind = "write_read"
           /\ ReadOk =>
                LET target == C4_Target(ByteRead, arg[1])
                IN  /\ RateBits(target) = Pattern(arg[1])
                    /\ Intcn(target) = 0
                    /\ \A i \in OtherBits : Bit(target, i) = Bit(ByteRead, i)
                    /\ IF target # ByteRead
                       THEN OneReadOneWrite /\ ByteWritten = target
                       ELSE OneReadNoWrite

C4_Witness ==
    /\ op = "start_square_wave"
    /\ arg = <<"Hz1">>
    /\ ReadOk /\ Wrote
    /\ ByteRead = 28
    /\ ByteWritten = 0

(***************************************************************************)
(* C5: enable_square_wave() issues exactly one read of the control         *)
(* register; if bit 2 of the byte read is 1 it then issues exactly one     *)
(* write of that byte with only bit 2 cleared; if bit 2 is already 0 it    *)
(* issues no write.                                                        *)
(***************************************************************************)
C5_EnableTraffic ==
    op = "enable_square_wave"
        => /\ Cardinality(Reads) = 1
           /\ bus[1].kind = "write_read"
           /\ bus[1].bytes = <<14>>
           /\ ReadOk =>
                IF Intcn(ByteRead) = 1
                THEN OneReadOneWrite /\ ByteWritten = ByteRead - 4
                ELSE OneReadNoWrite

C5_Witness ==
    /\ op = "enable_square_wave"
    /\ ReadOk /\ Wrote
    /\ ByteRead = 255
    /\ ByteWritten = 251

(***************************************************************************)
(* C6: disable_square_wave() issues exactly one read of the control        *)
(* register; if bit 2 of the byte read is 0 it then issues exactly one     *)
(* write of that byte with only bit 2 set; if bit 2 is already 1 it issues *)
(* no write.                                                               *)
(***************************************************************************)
C6_DisableTraffic ==
    op = "disable_square_wave"
        => /\ Cardinality(Reads) = 1
           /\ bus[1].kind = "write_read"
           /\ bus[1].bytes = <<14>>
           /\ ReadOk =>
                IF Intcn(ByteRead) = 0
                THEN OneReadOneWrite /\ ByteWritten = ByteRead + 4
                ELSE OneReadNoWrite

C6_Witness ==
    /\ op = "disable_square_wave"
    /\ ReadOk /\ Wrote
    /\ ByteRead = 24
    /\ ByteWritten = 28

(***************************************************************************)
(* C7: in each of the four square-wave operations, if the read of the      *)
(* control register fails at the bus, the operation returns an error,      *)
(* issues no write, and the device control register is unchanged.          *)
(***************************************************************************)
ReadFailed == Len(bus) >= 1 /\ bus[1].kind = "write_read" /\ ~bus[1].ok

C7_ReadFailureNoWrite ==
    (op \in SqwOps /\ ReadFailed)
        => /\ result # Ok
           /\ result \in Error
           /\ Writes = {}
           /\ ctrl = pre

C7_Witness ==
    /\ op = "start_square_wave"
    /\ arg = <<"Hz8192">>
    /\ pre = 4
    /\ ReadFailed
    /\ result = Error_I2c(1)

(***************************************************************************)
(* C8: a bus failure on the write step of a square-wave operation is       *)
(* returned to the caller as the I2c variant wrapping exactly the          *)
(* transport error the bus reported; the operation does not return Ok and  *)
(* does not return another error.                                          *)
(***************************************************************************)
WriteFailed == Wrote /\ ~bus[2].ok

C8_WriteFailureSurfaced ==
    (op \in SqwOps /\ WriteFailed)
        => /\ result.tag = "I2c"
           /\ result.payload = bus[2].err
           /\ Len(result.payload) = 1

C8_Witness ==
    /\ op = "enable_square_wave"
    /\ pre = 4
    /\ WriteFailed
    /\ bus[2].err = <<1>>
    /\ result = Error_I2c(1)

(***************************************************************************)
(* C9: every bus transaction of the four square-wave operations targets    *)
(* device address 0x68 and the control register 0x0E: a read is a          *)
(* WriteRead of the one byte [0x0E] that returns one byte, a write is a    *)
(* Write of the two bytes [0x0E, value].                                   *)
(***************************************************************************)
C9_Addressing ==
    op \in SqwOps
        => \A i \in 1..Len(bus) :
              /\ bus[i].address = 104
              /\ bus[i].bytes[1] = 14
              /\ \/ /\ bus[i].kind = "write_read"
                    /\ Len(bus[i].bytes) = 1
                    /\ bus[i].ok => Len(bus[i].response) = 1
                 \/ /\ bus[i].kind = "write"
                    /\ Len(bus[i].bytes) = 2
                    /\ bus[i].bytes[2] \in Byte

C9_Witness ==
    /\ op = "set_square_wave_frequency"
    /\ OneReadOneWrite
    /\ bus[1].address = 104 /\ bus[1].bytes = <<14>> /\ bus[1].response = <<0>>
    /\ bus[2].address = 104 /\ bus[2].bytes = <<14, 24>>

(***************************************************************************)
(* C10: the kind projection is defined on all five error variants and      *)
(* depends on the variant alone: I2c -> Bus, InvalidAddress ->             *)
(* InvalidAddress, DateTime -> InvalidDateTime, UnsupportedSqwFrequency -> *)
(* UnsupportedSqwFrequency, InvalidBaseCentury -> InvalidDateTime.         *)
(***************************************************************************)
C10_Table ==
    [I2c |-> "Bus",
     InvalidAddress |-> "InvalidAddress",
     DateTime |-> "InvalidDateTime",
     UnsupportedSqwFrequency |-> "UnsupportedSqwFrequency",
     InvalidBaseCentury |-> "InvalidDateTime"]

C10_KindProjection ==
    op = "kind"
        => /\ arg[1].tag \in DOMAIN C10_Table
           /\ result = [tag |-> "ErrorKind", payload |-> <<C10_Table[arg[1].tag]>>]
           /\ \A other \in Error :
                 other.tag = arg[1].tag => <<kind(other)>> = result.payload

C10_Witness ==
    /\ op = "kind"
    /\ arg = <<Error_InvalidBaseCentury>>
    /\ result.payload = <<"InvalidDateTime">>

(***************************************************************************)
(* C11 (as stated): the error classification has five distinct kinds and   *)
(* each failure is classified as its own kind: the kind reported for an    *)
(* invalid base century is InvalidBaseCentury and differs from the kind    *)
(* reported for an invalid date/time.                                      *)
(***************************************************************************)
C11_Original ==
    (op = "kind" /\ arg[1].tag = "InvalidBaseCentury")
        => /\ result.payload = <<"InvalidBaseCentury">>
           /\ \A d \in DateTimeError : <<kind(Error_DateTime(d))>> # result.payload

(***************************************************************************)
(* C11 (amended): the error type has five distinct variants, and the kind  *)
(* projection maps them onto four kinds, Bus, InvalidAddress,              *)
(* UnsupportedSqwFrequency and InvalidDateTime: two errors are reported    *)
(* with the same kind exactly when they are the same variant or are both   *)
(* among DateTime and InvalidBaseCentury, which are both reported as       *)
(* InvalidDateTime.                                                        *)
(***************************************************************************)
C11_Kinds == {"Bus", "InvalidAddress", "UnsupportedSqwFrequency", "InvalidDateTime"}

C11_SameClass(a, b) ==
    \/ a.tag = b.tag
    \/ {a.tag, b.tag} = {"DateTime", "InvalidBaseCentury"}

C11_FourKinds ==
    op = "kind"
        => /\ Cardinality({e.tag : e \in Error}) = 5
           /\ result.payload[1] \in C11_Kinds
           /\ \A other \in Error :
                 (<<kind(other)>> = result.payload) <=> C11_SameClass(other, arg[1])
           /\ arg[1].tag \in {"DateTime", "InvalidBaseCentury"}
                 => result.payload = <<"InvalidDateTime">>

C11_Witness ==
    /\ op = "kind"
    /\ arg = <<Error_InvalidBaseCentury>>
    /\ result = [tag |-> "ErrorKind", payload |-> <<kind(Error_DateTime("InvalidDay"))>>]

(***************************************************************************)
(* C12: with no bus failure, start_square_wave(f) for a supported f leaves *)
(* the device control register with the value that                         *)
(* set_square_wave_frequency(f) followed by enable_square_wave() leaves    *)
(* from the same initial byte, and it issues no more bus transactions than *)
(* the two calls together (at most 1 read + 1 write against 2 reads and up *)
(* to 2 writes).                                                           *)
(***************************************************************************)
C12_NoFailure == [rfail |-> FALSE, wfail |-> FALSE, e |-> 0, landed |-> FALSE]

\* set_square_wave_frequency(f) then enable_square_wave() on a device holding c
C12_TwoCalls(f, c) ==
    LET first == set_square_wave_frequency(f, c, C12_NoFailure)
        second == enable_square_wave(first.dev, C12_NoFailure)
    IN  [dev |-> second.dev, bus |-> first.bus \o second.bus,
         ok |-> first.result = Ok /\ second.result = Ok]

C12_BusOk == \A i \in 1..Len(bus) : bus[i].ok

C12_StartIsSetThenEnable ==
    (op = "start_square_wave" /\ arg[1] \in Supported /\ C12_BusOk)
        => LET two == C12_TwoCalls(arg[1], pre)
               reads2 == {i \in 1..Len(two.bus) : two.bus[i].kind = "write_read"}
               writes2 == {i \in 1..Len(two.bus) : two.bus[i].kind = "write"}
           IN  /\ two.ok /\ result = Ok
               /\ ctrl = two.dev
               /\ Len(bus) <= Len(two.bus)
               /\ Cardinality(Reads) = 1 /\ Cardinality(Writes) <= 1
               /\ Cardinality(reads2) = 2 /\ Cardinality(writes2) <= 2
               /\ Cardinality(Writes) <= Cardinality(writes2)

\* start writes once where the two calls write twice
C12_Witness ==
    /\ op = "start_square_wave"
    /\ arg = <<"Hz1024">>
    /\ C12_BusOk
    /\ pre = 255
    /\ ctrl = 235
    /\ Len(bus) = 2
    /\ Len(C12_TwoCalls("Hz1024", pre).bus) = 4
    /\ C12_TwoCalls("Hz1024", pre).dev = 235

(***************************************************************************)
(* C13: after any sequence of enable, disable, set_frequency and start     *)
(* calls, with any arguments and with bus failures at any read or write,   *)
(* bits 0, 1, 5, 6 and 7 of the control register equal their initial       *)
(* values; only bits 2-4 (INTCN and the rate-select field, which do not    *)
(* overlap) ever change.                                                   *)
(***************************************************************************)
C13_FramePreserved ==
    /\ \A i \in OtherBits : Bit(ctrl, i) = Bit(frame0, i)
    /\ \A i \in 0..7 : Bit(INTCN_BIT, i) + Bit(RS_MASK, i) <= 1

\* a call changed bits 2-4 of a register whose other bits are all set
C13_Witness ==
    /\ op = "start_square_wave"
    /\ arg = <<"Hz1">>
    /\ pre = 255
    /\ ctrl = 227
    /\ frame0 = 227

(***************************************************************************)
(* C14: the rate-select bits of the device change only in a step of        *)
(* set_frequency or start, and INTCN changes only in a step of enable,     *)
(* disable or start; so after set_frequency(f), any number of disable()    *)
(* and enable() calls and a final enable(), the device is in square-wave   *)
(* mode (INTCN = 0) at rate f.                                             *)
(***************************************************************************)
C14_RateAndModeRetained ==
    /\ RateBits(ctrl) # RateBits(pre) => op \in FreqOps
    /\ Intcn(ctrl) # Intcn(pre)
          => op \in {"enable_square_wave", "disable_square_wave", "start_square_wave"}
    /\ (held # "none" /\ op \in {"enable_square_wave", "disable_square_wave"})
          => RateBits(ctrl) = Pattern(held)
    /\ (held # "none" /\ op = "enable_square_wave" /\ result = Ok)
          => Intcn(ctrl) = 0 /\ RateBits(ctrl) = Pattern(held)

\* 4.096 kHz was set, and a later enable had to clear INTCN
C14_Witness ==
    /\ held = "Hz4096"
    /\ op = "enable_square_wave"
    /\ result = Ok
    /\ Wrote
    /\ Intcn(pre) = 1
    /\ ctrl = 16

(***************************************************************************)
(* C15: the lookup maps 1 Hz to 0b0000_0000, 1.024 kHz to 0b0000_1000,     *)
(* 4.096 kHz to 0b0001_0000, 8.192 kHz to 0b0001_1000 and every other      *)
(* frequency to UnsupportedSqwFrequency; the four patterns are pairwise    *)
(* distinct, lie inside bits 3-4 and never contain bit 2.                  *)
(***************************************************************************)
C15_FreqToBits ==
    op = "freq_to_bits"
        => IF arg[1] \in Supported
           THEN /\ result = [tag |-> "Ok", payload |-> <<Pattern(arg[1])>>]
                /\ RateBits(result.payload[1]) = result.payload[1]
                /\ Intcn(result.payload[1]) = 0
                /\ \A g \in Supported \ {arg[1]} :
                      /\ freq_to_bits(g).ok
                      /\ freq_to_bits(g).bits # result.payload[1]
           ELSE result = Error_UnsupportedSqwFrequency

C15_Witness ==
    /\ op = "freq_to_bits"
    /\ arg = <<"Hz8192">>
    /\ result = [tag |-> "Ok", payload |-> <<24>>]

(***************************************************************************)
(* C16: every call to enable, disable, set_frequency or start issues at    *)
(* most two bus transactions, at most one read and one write (no retry);   *)
(* a write is issued only after the read of the same call succeeded; no    *)
(* transaction follows a failed one; and the call always returns exactly   *)
(* one result, Ok or one error value, whatever the device and the bus do.  *)
(***************************************************************************)
\* a call made on the device as it is now comes back with one result
C16_Returns(out) ==
    /\ out.result \in {Ok} \cup Error
    /\ Len(out.bus) <= 2
    /\ out.dev \in Byte

C16_BoundedNoRetry ==
    /\ op \in SqwOps
          => /\ Len(bus) <= 2
             /\ Cardinality(Reads) <= 1 /\ Cardinality(Writes) <= 1
             /\ \A i \in Writes :
                   i = 2 /\ bus[1].kind = "write_read" /\ bus[1].ok
             /\ \A i \in 1..Len(bus) : ~bus[i].ok => i = Len(bus)
             /\ result \in {Ok} \cup Error
             /\ (\E i \in 1..Len(bus) : ~bus[i].ok) => result # Ok
    /\ \A env \in Env :
          /\ C16_Returns(enable_square_wave(ctrl, env))
          /\ C16_Returns(disable_square_wave(ctrl, env))
          /\ \A freq \in SquareWaveFreq :
                /\ C16_Returns(set_square_wave_frequency(freq, ctrl, env))
                /\ C16_Returns(start_square_wave(freq, ctrl, env))

\* the write failed and nothing was issued after it
C16_Witness ==
    /\ op = "set_square_wave_frequency"
    /\ arg = <<"Hz8192">>
    /\ Len(bus) = 2
    /\ bus[1].ok /\ ~bus[2].ok
    /\ result = Error_I2c(0)

(***************************************************************************)
(* C17: whenever an operation returns Ok, whether or not it wrote, the     *)
(* device control register meets the operation's goal: INTCN = 0 after     *)
(* enable, INTCN = 1 after disable, rate bits = pattern of f after         *)
(* set_frequency(f), and both INTCN = 0 and rate bits = pattern of f after *)
(* start(f).                                                               *)
(***************************************************************************)
C17_OkMeansGoal ==
    (op \in SqwOps /\ result = Ok)
        => /\ op = "enable_square_wave" => Intcn(ctrl) = 0
           /\ op = "disable_square_wave" => Intcn(ctrl) = 1
           /\ op = "set_square_wave_frequency"
                 => arg[1] \in Supported /\ RateBits(ctrl) = Pattern(arg[1])
           /\ op = "start_square_wave"
                 => /\ arg[1] \in Supported
                    /\ Intcn(ctrl) = 0
                    /\ RateBits(ctrl) = Pattern(arg[1])

\* the write was elided: the rate already matched and only the read happened
C17_Witness ==
    /\ op = "start_square_wave"
    /\ arg = <<"Hz1024">>
    /\ result = Ok
    /\ OneReadNoWrite
    /\ ctrl = 8

(***************************************************************************)
(* C18: if an operation returned Ok and the same operation with the same   *)
(* argument is the next call, with no change to the device in between,     *)
(* the second call issues exactly one read and no write and leaves the     *)
(* control register unchanged.                                             *)
(***************************************************************************)
C18_Repeat ==
    (op \in SqwOps /\ result = Ok /\ op' = op /\ arg' = arg)
        => /\ Len(bus') = 1
           /\ bus'[1].kind = "write_read"
           /\ ctrl' = ctrl

C18_Idempotent == [][C18_Repeat]_vars

\* the state a repeated start(8.192 kHz) ends in: the register already held
\* the target, so the call read once, wrote nothing and changed nothing
C18_Witness ==
    /\ op = "start_square_wave"
    /\ arg = <<"Hz8192">>
    /\ held = "Hz8192"
    /\ result = Ok
    /\ pre = 24
    /\ ctrl = 24
    /\ OneReadNoWrite

====
